---- MODULE Spec2Model ----
(***************************************************************************)
(* The Observer-based notification core of src/observer_pattern.py:       *)
(* the two Subjects (WeatherData, Button), their observer registries, the  *)
(* display observers and the button listeners.                             *)
(*                                                                         *)
(* A call of registerObserver / removeObserver is one step.  A call of     *)
(* set_measurements / set_state / notifyObservers is a step that assigns   *)
(* the fields and creates the list iterator, then one step per iteration   *)
(* of "for observer in self.observers: observer.update()", then a return   *)
(* step.  The program is single-threaded: while a broadcast runs (pc =     *)
(* "notify") nothing but the loop itself advances.                         *)
(***************************************************************************)
EXTENDS Integers, Sequences, FiniteSets, TLC

\* ------------------------------------------------------------------ bounds

\* Longest registry the driver builds (registerObserver is not called beyond it).
MaxObservers == 3

\* ------------------------------------------------------- program constants

ON == 1                 \* ButtonState.ON  = auto()
OFF == 2                \* ButtonState.OFF = auto()
HardcodedPollen == 15   \* self.pollen = 15

ButtonState == {ON, OFF}

Subjects == {"weatherData", "button"}

\* The observer objects of the __main__ demo, one per class of the source.
WeatherObservers ==
    {"pressureDisplay", "temperatureDisplay", "humidifyDisplay", "pollenDisplay"}
ButtonObservers == {"onEventListener", "offEventListener"}

\* Observer subclasses the abstract interface admits and the source does not
\* define: one whose update() raises, one whose update() removes itself.
RaisingObservers == {"raisingObserver"}
SelfRemovingObservers == {"selfRemovingObserver"}

Observers ==
    WeatherObservers \cup ButtonObservers \cup RaisingObservers
        \cup SelfRemovingObservers

ClassOf(o) ==
    CASE o = "pressureDisplay"      -> "PressureDisplay"
      [] o = "temperatureDisplay"   -> "TemperatureDisplay"
      [] o = "humidifyDisplay"      -> "HumidityDisplay"
      [] o = "pollenDisplay"        -> "PollenDisplay"
      [] o = "onEventListener"      -> "OnEventListener"
      [] o = "offEventListener"     -> "OffEventListener"
      [] o = "raisingObserver"      -> "RaisingObserver"
      [] o = "selfRemovingObserver" -> "SelfRemovingObserver"

\* The observers a driver registers with subject s: each observer is
\* registered with the subject it was constructed on, as in the demo.
SourceObservers(s) == IF s = "weatherData" THEN WeatherObservers ELSE ButtonObservers

\* Argument tuples of set_measurements(temperature, pressure, humidity, pollen),
\* taken from the demo's calls.
Measurements == {<<50, 120, 120, 123>>, <<60, 105, 100, 123>>}

VARIABLES
    subject,        \* the Subject this run drives (the two share no state)
    observers,      \* observers[s]: self.observers of subject s, a list
    temperature,    \* WeatherData.temperature
    pressure,       \* WeatherData.pressure
    humidity,       \* WeatherData.humidity
    pollen,         \* WeatherData.pollen
    button_state,   \* Button._state
    local,          \* local[o]: the display observer's own copy of its field
    pc,             \* "idle", or "notify" while notifyObservers iterates
    idx,            \* the list iterator's index (entries already yielded)
    calls,          \* the update() invocations of the latest call, in order,
                    \* each with what it wrote to the console
    call,           \* the latest call made on the subject by the driver
    outcome         \* how it ended: "ok", "ValueError", "Exception"

vars ==
    <<subject, observers, temperature, pressure, humidity, pollen,
      button_state, local, pc, idx, calls, call, outcome>>

weather == <<temperature, pressure, humidity, pollen>>

\* ------------------------------------------------------------ Python lists

\* Auxiliary: the set of entries of a list, and how often x occurs in it.
Range(l) == {l[i] : i \in 1..Len(l)}

Count(l, x) == Cardinality({i \in 1..Len(l) : l[i] = x})

\* Not the source: list.insert(0, x), and an append with an identity check.
list_append_front(l, x) == <<x>> \o l
list_append_unique(l, x) == IF x \in Range(l) THEN l ELSE Append(l, x)
\* list.append(x)
list_append(l, x) == Append(l, x)

\* list.remove(x) scans from the front for the first equal entry; 0: none.
RECURSIVE list_index(_, _, _)
list_index(l, x, i) ==
    IF i > Len(l) THEN 0
    ELSE IF l[i] = x THEN i
    ELSE list_index(l, x, i + 1)

\* Not the source: list.pop(), and a removal of the last equal entry.
list_remove_pop(l, x) == SubSeq(l, 1, Len(l) - 1)
list_remove_last(l, x) ==
    LET i == CHOOSE j \in 1..Len(l) :
                 l[j] = x /\ \A k \in (j + 1)..Len(l) : l[k] # x
    IN  SubSeq(l, 1, i - 1) \o SubSeq(l, i + 1, Len(l))
\* list.remove(x) for x in l: deletes that entry, the rest keeps its order.
list_remove(l, x) ==
    LET i == list_index(l, x, 1)
    IN  SubSeq(l, 1, i - 1) \o SubSeq(l, i + 1, Len(l))

\* Not the source: a removal that ignores a missing entry.
list_remove_never_raises(l, x) == FALSE
\* list.remove(x) raises ValueError when x is not in the list.
list_remove_raises(l, x) == list_index(l, x, 1) = 0

\* ---------------------------------------------------------------- observers

IsDisplay(o) == o \in WeatherObservers

\* The getter a display's update() pulls from its subject.
Pulled(o) ==
    CASE ClassOf(o) = "TemperatureDisplay" -> temperature
      [] ClassOf(o) = "HumidityDisplay"    -> humidity
      [] ClassOf(o) = "PressureDisplay"    -> pressure
      [] ClassOf(o) = "PollenDisplay"      -> pollen

\* Not the source: a listener that reacts to every notification.
ReactsAlways(o, st) == TRUE
\* Whether a listener's update() prints its reaction in button state st.
Reacts(o, st) ==
    CASE ClassOf(o) = "OnEventListener"  -> st = ON
      [] ClassOf(o) = "OffEventListener" -> st = OFF

\* What update() of o writes to the console: a display prints the value it
\* has just stored, a listener prints its reaction (tagged by the state it
\* saw) or nothing.
Printed(o) ==
    IF IsDisplay(o) THEN <<Pulled(o)>>
    ELSE IF o \in ButtonObservers /\ Reacts(o, button_state) THEN <<button_state>>
    ELSE <<>>

Invocation(o) == [observer |-> o, printed |-> Printed(o)]

CallObs == [k \in 1..Len(calls) |-> calls[k].observer]

NoArgs == <<>>
NoObserver == "none"
Call(op, o, args) == [op |-> op, observer |-> o, args |-> args]

\* --------------------------------------------------------------------- Init

Init ==
    /\ subject \in Subjects
    /\ observers = [s \in Subjects |-> <<>>]
    /\ temperature = 0
    /\ pressure = 0
    /\ humidity = 0
    /\ pollen = 0
    /\ button_state = ON
    /\ local = [o \in WeatherObservers |-> 0]
    /\ pc = "idle"
    /\ idx = 0
    /\ calls = <<>>
    /\ call = Call("init", NoObserver, NoArgs)
    /\ outcome = "ok"

\* ------------------------------------------------------------------ actions

\* Not the source: a registration that brings the newcomer up to date at once.
registerObserver_updates_newcomer(s, o) ==
    /\ pc = "idle"
    /\ s = subject
    /\ Len(observers[s]) < MaxObservers
    /\ observers' = [observers EXCEPT ![s] = list_append(@, o)]
    /\ local' = IF IsDisplay(o) THEN [local EXCEPT ![o] = Pulled(o)] ELSE local
    /\ calls' = <<>>
    /\ call' = Call("registerObserver", o, NoArgs)
    /\ outcome' = "ok"
    /\ UNCHANGED <<subject, weather, button_state, pc, idx>>
\* Subject.registerObserver(observer)
registerObserver(s, o) ==
    /\ pc = "idle"
    /\ s = subject
    /\ Len(observers[s]) < MaxObservers
    /\ observers' = [observers EXCEPT ![s] = list_append(@, o)]
    /\ calls' = <<>>
    /\ call' = Call("registerObserver", o, NoArgs)
    /\ outcome' = "ok"
    /\ UNCHANGED <<subject, weather, button_state, local, pc, idx>>

\* Subject.removeObserver(observer), called by the driver
removeObserver(s, o) ==
    /\ pc = "idle"
    /\ s = subject
    /\ IF list_remove_raises(observers[s], o)
       THEN /\ outcome' = "ValueError"
            /\ UNCHANGED observers
       ELSE /\ outcome' = "ok"
            /\ observers' = [observers EXCEPT ![s] = list_remove(@, o)]
    /\ calls' = <<>>
    /\ call' = Call("removeObserver", o, NoArgs)
    /\ UNCHANGED <<subject, weather, button_state, local, pc, idx>>

\* Subject.notifyObservers(), called by the driver: the loop starts
notifyObservers(s) ==
    /\ pc = "idle"
    /\ s = subject
    /\ pc' = "notify"
    /\ idx' = 0
    /\ calls' = <<>>
    /\ call' = Call("notifyObservers", NoObserver, NoArgs)
    /\ outcome' = "ok"
    /\ UNCHANGED <<subject, observers, weather, button_state, local>>

\* Not the source: set_measurements without "self.humidity = humidity".
set_measurements_skips_humidity(t, p, h, pl) ==
    /\ pc = "idle"
    /\ subject = "weatherData"
    /\ temperature' = t
    /\ pressure' = p
    /\ pollen' = HardcodedPollen
    /\ pc' = "notify"
    /\ idx' = 0
    /\ calls' = <<>>
    /\ call' = Call("set_measurements", NoObserver, <<t, p, h, pl>>)
    /\ outcome' = "ok"
    /\ UNCHANGED <<subject, observers, humidity, button_state, local>>
\* WeatherData.set_measurements(temperature, pressure, humidity, pollen):
\* the four assignments, then the call of notifyObservers
set_measurements(t, p, h, pl) ==
    /\ pc = "idle"
    /\ subject = "weatherData"
    /\ temperature' = t
    /\ pressure' = p
    /\ humidity' = h
    /\ pollen' = HardcodedPollen
    /\ pc' = "notify"
    /\ idx' = 0
    /\ calls' = <<>>
    /\ call' = Call("set_measurements", NoObserver, <<t, p, h, pl>>)
    /\ outcome' = "ok"
    /\ UNCHANGED <<subject, observers, button_state, local>>

\* Not the source: a set_state that notifies only when the state changes.
set_state_if_changed(st) ==
    /\ pc = "idle"
    /\ subject = "button"
    /\ button_state' = st
    /\ pc' = IF st = button_state THEN "idle" ELSE "notify"
    /\ idx' = 0
    /\ calls' = <<>>
    /\ call' = Call("set_state", NoObserver, <<st>>)
    /\ outcome' = "ok"
    /\ UNCHANGED <<subject, observers, weather, local>>
\* Button.set_state(state): the assignment, then the call of notifyObservers
set_state(st) ==
    /\ pc = "idle"
    /\ subject = "button"
    /\ button_state' = st
    /\ pc' = "notify"
    /\ idx' = 0
    /\ calls' = <<>>
    /\ call' = Call("set_state", NoObserver, <<st>>)
    /\ outcome' = "ok"
    /\ UNCHANGED <<subject, observers, weather, local>>

\* Not the source: a registry that update() cannot change (removals made
\* during a broadcast are put off).
RegistryAfterUpdateDeferred(s, o) == observers
\* The registry after update() of o has run: only a self-removing observer
\* calls self.subject.removeObserver(self) from inside update().
RegistryAfterUpdate(s, o) ==
    IF o \in SelfRemovingObservers
    THEN [observers EXCEPT ![s] = list_remove(@, o)]
    ELSE observers

\* The display copies after update() of o has run.
LocalAfterUpdate(o) ==
    IF IsDisplay(o) THEN [local EXCEPT ![o] = Pulled(o)] ELSE local

\* Not the source: a loop that catches what update() raises and goes on.
update_swallows_exception(s) ==
    /\ pc = "notify"
    /\ s = subject
    /\ idx < Len(observers[s])
    /\ LET o == observers[s][idx + 1] IN
         /\ idx' = idx + 1
         /\ calls' = Append(calls, Invocation(o))
         /\ local' = LocalAfterUpdate(o)
         /\ observers' = RegistryAfterUpdate(s, o)
         /\ UNCHANGED <<pc, outcome>>
    /\ UNCHANGED <<subject, weather, button_state, call>>
\* One iteration of the loop: the iterator yields self.observers[idx] and
\* steps, then observer.update() runs.  An exception raised by update() is
\* caught nowhere: it ends the loop, notifyObservers and its caller.
update(s) ==
    /\ pc = "notify"
    /\ s = subject
    /\ idx < Len(observers[s])
    /\ LET o == observers[s][idx + 1] IN
         /\ idx' = idx + 1
         /\ calls' = Append(calls, Invocation(o))
         /\ local' = LocalAfterUpdate(o)
         /\ observers' = RegistryAfterUpdate(s, o)
         /\ IF o \in RaisingObservers
            THEN pc' = "idle" /\ outcome' = "Exception"
            ELSE UNCHANGED <<pc, outcome>>
    /\ UNCHANGED <<subject, weather, button_state, call>>

\* The iterator is exhausted: notifyObservers (and its caller) returns.
notifyReturn(s) ==
    /\ pc = "notify"
    /\ s = subject
    /\ idx >= Len(observers[s])
    /\ pc' = "idle"
    /\ UNCHANGED <<subject, observers, weather, button_state, local, idx,
                   calls, call, outcome>>

\* ----------------------------------------------------------- specifications

\* One step of the program, the driver registering and removing the
\* observers of pool with the subject it drives.
Step(pool) ==
    \/ \E s \in Subjects : \E o \in pool[s] : registerObserver(s, o)
    \/ \E s \in Subjects : \E o \in pool[s] : removeObserver(s, o)
    \/ \E s \in Subjects : notifyObservers(s)
    \/ \E m \in Measurements : set_measurements(m[1], m[2], m[3], m[4])
    \/ \E st \in ButtonState : set_state(st)
    \/ \E s \in Subjects : update(s)
    \/ \E s \in Subjects : notifyReturn(s)

\* The program with the observer classes of the source.
Next == Step([s \in Subjects |-> SourceObservers(s)])
Spec == Init /\ [][Next]_vars

\* Two of the displays and the listeners, beside an observer of a class the
\* source does not define.
SomeObservers(s) ==
    IF s = "weatherData" THEN {"temperatureDisplay", "pollenDisplay"}
    ELSE ButtonObservers

\* ... with an observer whose update() raises.
NextRaising == Step([s \in Subjects |-> SomeObservers(s) \cup RaisingObservers])
SpecRaising == Init /\ [][NextRaising]_vars

\* ... with an observer that removes itself from inside its update().
NextReentrant ==
    Step([s \in Subjects |-> SomeObservers(s) \cup SelfRemovingObservers])
SpecReentrant == Init /\ [][NextReentrant]_vars

\* --------------------------------------------------------------- properties

\* The registry of the driven subject.
Reg == observers[subject]

\* The latest call is a broadcast; it has returned normally.
Broadcast == call.op \in {"notifyObservers", "set_measurements", "set_state"}
Completed == pc = "idle" /\ Broadcast /\ outcome = "ok"

\* This step is the driver's call registerObserver(o) / removeObserver(o).
RegisterStep(o) ==
    /\ pc = "idle" /\ pc' = "idle"
    /\ call'.op = "registerObserver" /\ call'.observer = o
RemoveStep(o) ==
    /\ pc = "idle" /\ pc' = "idle"
    /\ call'.op = "removeObserver" /\ call'.observer = o

\* C1: registerObserver puts the observer behind all entries of the registry
\* (the registry is in registration order), and a notification that has
\* returned has invoked update() once per registry entry, in registry order.
C1_NotifyOncePerEntryInOrder ==
    [][ /\ \A o \in Observers : RegisterStep(o) => Reg' = Append(Reg, o)
        /\ Completed' => CallObs' = Reg'
      ]_vars

\* A notifyObservers() after registrations and a removal has updated the
\* three registered displays in the order they were registered.
C1_Witness ==
    /\ Completed
    /\ call.op = "notifyObservers"
    /\ CallObs = <<"pressureDisplay", "humidifyDisplay", "temperatureDisplay">>
    /\ local["pollenDisplay"] # 0

\* C2 as stated: once removeObserver(o) has returned successfully, o has no
\* entry in the registry that the following notifications iterate, so none
\* of them updates it.
C2_RemovedObserverIsGone ==
    [][ \A o \in Observers :
          (RemoveStep(o) /\ outcome' = "ok") => Count(Reg', o) = 0
      ]_vars

\* C2 amended: a successful removeObserver(o) takes exactly one entry of o
\* out of the registry and touches no observer's copy; while o has no entry
\* in the registry no step invokes its update() or changes its copy, and
\* only registerObserver(o) gives it an entry again.
C2_RemovalTakesOneEntry ==
    [][ LET before == Range(Reg)
            after == Range(Reg')
        IN  /\ (call'.op = "removeObserver" /\ pc = "idle" /\ outcome' = "ok") =>
                  /\ Count(Reg', call'.observer) = Count(Reg, call'.observer) - 1
                  /\ local' = local
                  /\ calls' = <<>>
            /\ \A o \in after \ before : RegisterStep(o)
            /\ \A o \in Range(CallObs') : o \in before \cup after
            /\ \A o \in WeatherObservers \ (before \cup after) :
                  local'[o] = local[o]
      ]_vars

\* The temperature display was updated, then removed; a later
\* set_measurements has updated the remaining observer only, and the removed
\* display still holds the value it pulled last.
C2_Witness ==
    /\ Completed
    /\ call.op = "set_measurements"
    /\ Reg = <<"pressureDisplay">>
    /\ Count(CallObs, "temperatureDisplay") = 0
    /\ local["temperatureDisplay"] = 50
    /\ temperature = 60

\* C3: registerObserver adds an entry whether or not the observer is already
\* registered, and a notification that has returned has invoked each
\* observer's update() as many times as the observer has entries.
C3_DuplicatesAreNotifiedTwice ==
    [][ \A o \in Observers :
          /\ RegisterStep(o) => Count(Reg', o) = Count(Reg, o) + 1
          /\ Completed' => Count(CallObs', o) = Count(Reg', o)
      ]_vars

\* The pollen display, registered twice, was updated twice by one broadcast.
C3_Witness ==
    /\ Completed
    /\ Count(Reg, "pollenDisplay") = 2
    /\ Count(CallObs, "pollenDisplay") = 2

\* C4: from the first iteration of the loop on, the fields hold what
\* set_measurements / set_state assigned; every update() of the broadcast
\* printed the subject's state as it is now; when the call has returned every
\* registered display holds its subject's field and has printed it.
C4_UpdatesSeeTheNewState ==
    /\ call.op = "set_measurements" =>
          /\ <<temperature, pressure, humidity>> = SubSeq(call.args, 1, 3)
          /\ pollen = HardcodedPollen
    /\ call.op = "set_state" => button_state = call.args[1]
    /\ call.op \in {"set_measurements", "set_state"} =>
          \A k \in 1..Len(calls) : calls[k] = Invocation(calls[k].observer)
    /\ (Completed /\ call.op \in {"set_measurements", "set_state"}) =>
          \A o \in Range(Reg) :
              IsDisplay(o) =>
                  /\ local[o] = Pulled(o)
                  /\ \E k \in 1..Len(calls) :
                         calls[k] = [observer |-> o, printed |-> <<Pulled(o)>>]

\* set_measurements(60, 105, 100, 123) has returned with three displays
\* registered, each holding and having printed the new value.
C4_Witness ==
    /\ Completed
    /\ call = Call("set_measurements", NoObserver, <<60, 105, 100, 123>>)
    /\ Reg = <<"pollenDisplay", "humidifyDisplay", "pressureDisplay">>
    /\ local["humidifyDisplay"] = 100
    /\ local["pressureDisplay"] = 105
    /\ calls[1].printed = <<HardcodedPollen>>

\* C5: after set_measurements(temperature, pressure, humidity, pollen) the
\* four fields hold the four arguments, and a pollen display updated by the
\* call has printed the pollen argument.
C5_AllFieldsFromArguments ==
    call.op = "set_measurements" =>
        /\ <<temperature, pressure, humidity, pollen>> = call.args
        /\ \A k \in 1..Len(calls) :
               ClassOf(calls[k].observer) = "PollenDisplay" =>
                   calls[k].printed = <<call.args[4]>>

\* C6: removeObserver(o) with no entry of o in the registry ends in
\* ValueError, and changes neither the registry, nor a field of the subject,
\* nor an observer's copy, and invokes no update().
C6_RemoveUnregisteredRaises ==
    [][ \A o \in Observers :
          (RemoveStep(o) /\ Count(Reg, o) = 0) =>
              /\ outcome' = "ValueError"
              /\ observers' = observers
              /\ weather' = weather
              /\ button_state' = button_state
              /\ local' = local
              /\ calls' = <<>>
      ]_vars

\* removeObserver(humidifyDisplay) has raised on a registry of two other
\* displays, after a set_measurements.
C6_Witness ==
    /\ outcome = "ValueError"
    /\ call = Call("removeObserver", "humidifyDisplay", NoArgs)
    /\ Reg = <<"pressureDisplay", "temperatureDisplay">>
    /\ temperature = 50
    /\ local["humidifyDisplay"] = 120

\* C7: when update() of the observer at registry position i raises, the
\* exception leaves notifyObservers and its caller: the entries before i have
\* each been updated once and in order, none behind i is updated (the loop is
\* over), and the subject's fields, as assigned by the call, and its registry
\* stay as they are.
C7_ExceptionAbortsTheBroadcast ==
    [][ (pc = "notify" /\ idx < Len(Reg) /\ Reg[idx + 1] \in RaisingObservers) =>
          /\ outcome' = "Exception"
          /\ pc' = "idle"
          /\ CallObs' = SubSeq(Reg, 1, idx + 1)
          /\ \A j \in 1..idx : Reg[j] \notin RaisingObservers
          /\ observers' = observers
          /\ weather' = weather
          /\ button_state' = button_state
          /\ call.op = "set_measurements" =>
                <<temperature', pressure', humidity'>> = SubSeq(call.args, 1, 3)
          /\ call.op = "set_state" => button_state' = call.args[1]
      ]_vars

\* set_measurements(60, ...) has ended in the exception of the observer at
\* position 2: the display before it holds 60, the one behind it was never
\* updated, the fields and the registry are as the call left them.
C7_Witness ==
    /\ outcome = "Exception"
    /\ pc = "idle"
    /\ call.op = "set_measurements"
    /\ Reg = <<"temperatureDisplay", "raisingObserver", "pollenDisplay">>
    /\ CallObs = <<"temperatureDisplay", "raisingObserver">>
    /\ temperature = 60
    /\ local["temperatureDisplay"] = 60
    /\ local["pollenDisplay"] = 0

\* C8: removeObserver(o) on a registry holding o takes out the first entry of
\* o and nothing else: the registry is one shorter, the entries before and
\* behind it, later entries of o among them, keep their order.
C8_RemoveTakesFirstEntry ==
    [][ \A o \in Observers :
          (RemoveStep(o) /\ Count(Reg, o) > 0) =>
              /\ outcome' = "ok"
              /\ Len(Reg') = Len(Reg) - 1
              /\ \E i \in 1..Len(Reg) :
                    /\ Reg[i] = o
                    /\ \A j \in 1..(i - 1) : Reg[j] # o
                    /\ Reg' = SubSeq(Reg, 1, i - 1) \o SubSeq(Reg, i + 1, Len(Reg))
      ]_vars

\* removeObserver(temperatureDisplay) has left the registry
\* <<pressureDisplay, temperatureDisplay>>: the entry taken out was before
\* pressureDisplay, and the later entry of temperatureDisplay is still there.
C8_Witness ==
    /\ call = Call("removeObserver", "temperatureDisplay", NoArgs)
    /\ outcome = "ok"
    /\ Reg = <<"pressureDisplay", "temperatureDisplay">>
    /\ subject = "weatherData"

\* C9: when the observer at registry position i removes itself inside its
\* update(), the entry that was at position i + 1 moves to position i, which
\* the iterator has already passed; the iterator only moves forward, one
\* position per update(), so that entry is skipped although it is still
\* registered; the broadcast then returns having made fewer update() calls
\* than the registry had entries when it started.
C9_SelfRemovalSkipsTheNextEntry ==
    [][ /\ (pc = "notify" /\ idx + 1 < Len(Reg)
              /\ Reg[idx + 1] \in SelfRemovingObservers) =>
              /\ pc' = "notify"
              /\ idx' = idx + 1
              /\ Len(Reg') = Len(Reg) - 1
              /\ Reg'[idx'] = Reg[idx + 2]
              /\ calls' = Append(calls, [observer |-> Reg[idx + 1], printed |-> <<>>])
        /\ (pc = "notify" /\ pc' = "notify") =>
              /\ idx' = idx + 1
              /\ CallObs' = Append(CallObs, Reg[idx + 1])
        /\ (Completed' /\ \E k \in 1..Len(Reg') :
                              /\ k <= Len(calls')
                              /\ calls'[k].observer \in SelfRemovingObservers) =>
              Len(calls') <
                  Len(Reg') + Cardinality({k \in 1..Len(calls') :
                                  calls'[k].observer \in SelfRemovingObservers})
      ]_vars

\* set_measurements(60, ...) has returned: the self-removing observer was
\* updated and is gone, and the temperature display registered right behind
\* it, still registered, was not updated and holds a stale value.
C9_Witness ==
    /\ Completed
    /\ call.op = "set_measurements"
    /\ CallObs = <<"selfRemovingObserver">>
    /\ Reg = <<"temperatureDisplay">>
    /\ temperature = 60
    /\ local["temperatureDisplay"] = 50

\* The state in which each listener class reacts.
Trigger(o) == IF ClassOf(o) = "OnEventListener" THEN ON ELSE OFF

C11_Frame ==
    /\ (pc = "idle" /\ call'.op \in {"registerObserver", "removeObserver"}) =>
          /\ pc' = "idle"
          /\ calls' = <<>>
          /\ local' = local
          /\ weather' = weather
          /\ button_state' = button_state
    /\ call'.op = "notifyObservers" =>
          /\ observers' = observers
          /\ weather' = weather
          /\ button_state' = button_state

\* C11 as stated: the frame above, and a display's copy leaves its initial
\* value 0 only in a set_measurements call.
C11_CopyChangesOnlyInSetMeasurements ==
    [][ /\ C11_Frame
        /\ \A o \in WeatherObservers :
              (local[o] = 0 /\ local'[o] # 0) => call'.op = "set_measurements"
      ]_vars

\* C11 amended: the frame above, and a display's copy changes only in an
\* update() step of a broadcast (a set_measurements call or a direct
\* notifyObservers() call) that finds the display registered.
C11_RegistryCallsChangeOnlyTheRegistry ==
    [][ /\ C11_Frame
        /\ \A o \in WeatherObservers :
              local'[o] # local[o] =>
                  /\ pc = "notify"
                  /\ call'.op \in {"set_measurements", "notifyObservers"}
                  /\ idx < Len(Reg) /\ Reg[idx + 1] = o
      ]_vars

\* registerObserver(temperatureDisplay) has returned after a set_measurements
\* made while it was not registered: the temperature is 50, its copy still 0.
C11_Witness ==
    /\ pc = "idle"
    /\ call = Call("registerObserver", "temperatureDisplay", NoArgs)
    /\ Reg = <<"pressureDisplay", "temperatureDisplay">>
    /\ temperature = 50
    /\ local["pressureDisplay"] = 120
    /\ local["temperatureDisplay"] = 0

====
